---------------------------- MODULE Spec2Model ----------------------------
(***************************************************************************)
(* A model of the two scripts of the repository:                           *)
(*   scripts/download_models.py  the download orchestrator (main,          *)
(*                               download_model, format_file_size, ...)    *)
(*   scripts/list_files.py       the listing script                        *)
(*                                                                         *)
(* Three programs are modelled, each with its own specification:           *)
(*   Spec / FairSpec         one run of main() of download_models.py       *)
(*   FormatSpec              one call of format_file_size                  *)
(*   ListSpec / ListFairSpec one run of list_files.py                      *)
(* The collaborators (hf_hub_download, list_repo_files, the file system)   *)
(* are the environment: their outcomes are chosen nondeterministically.    *)
(***************************************************************************)
EXTENDS Integers, Sequences, FiniteSets, TLC

VARIABLES
    \* ---- download_models.py: main() ----
    pc,             \* "loop" | "fetch" | "done" | "aborted" ("idle": not run)
    i,              \* the loop variable of main (1-based index into MODELS)
    success_count,  \* main's success_count
    total_size,     \* main's total_size
    fs,             \* the file system: path -> size of the file there, or Absent
    dirs,           \* the directories that exist
    console,        \* per task: what download_model printed about it
    outcome,        \* per task: the branch main took (line 135 / line 141)
    fetchCalls,     \* per task: how often hf_hub_download was called for it
    fetched,        \* per task: what hf_hub_download did (path returned / raised)
    accounted,      \* per task: the bytes main added to total_size for it
    started,        \* the tasks download_model was called for, in order
    mkdir_failed,   \* the tasks whose create_directory raised
    report,         \* the summary main printed (NoReport before)
    \* ---- download_models.py: format_file_size ----
    size_bytes,     \* the argument, a number in base-1024 digits
    formatted,      \* the text returned (NotFormatted before the call)
    \* ---- list_files.py ----
    lpc,            \* "loop" | "done" ("idle": not run)
    r,              \* index of the next repo of repos
    files,          \* the script's variable files (the last list returned)
    queried,        \* the repos list_repo_files was called with, in order
    printed         \* the lines the script printed, in order

dlVars  == <<pc, i, success_count, total_size, fs, dirs, console, outcome,
             fetchCalls, fetched, accounted, started, mkdir_failed, report>>
fmtVars == <<size_bytes, formatted>>
lsVars  == <<lpc, r, files, queried, printed>>
vars    == <<dlVars, fmtVars, lsVars>>

(***************************************************************************)
(* format_file_size                                                        *)
(*                                                                         *)
(* A byte count is a sequence of base-1024 digits, least significant       *)
(* first, without leading zero digits (zero is <<0>>): TLC's integers are  *)
(* 32 bits wide and the claims reach 1024^5.  Python divides a float: the  *)
(* quotients n / 1024^k are exact as long as n < 2^53, which is the range  *)
(* of the inputs below.                                                    *)
(***************************************************************************)
Base == 1024

Units == <<"B", "KB", "MB", "GB">>

LastUnit == "TB"

\* the text "0 B": no decimals
ZeroText == [whole |-> 0, decimals |-> << >>, unit |-> "B"]

IsZero(n) == n = <<0>>

\* (a variant comparing with <= instead of <)
Below_le(n, k) == Len(n) <= k + 2 /\ (Len(n) = k + 2 =>
                    /\ n[k + 2] = 1
                    /\ \A j \in 1..(k + 1) : n[j] = 0)

\* size_bytes < 1024.0 after k divisions by 1024.0: no digit above position k
Below(n, k) == Len(n) <= k + 1

\* the integer part of n / 1024^k
RECURSIVE IntPart(_, _)
IntPart(n, k) ==
    IF Len(n) <= k THEN 0
    ELSE n[k + 1] + Base * IntPart(n, k + 1)

\* 10 * (fraction of n / 1024^k), digit by digit: the carry out of digit j
RECURSIVE Carry(_, _)
Carry(n, j) ==
    IF j = 0 THEN 0
    ELSE (10 * n[j] + Carry(n, j - 1)) \div Base

Rem(n, j) == (10 * n[j] + Carry(n, j - 1)) % Base

\* what is left below the first decimal, against one half: -1, 0 (a tie), 1
HalfCmp(n, k) ==
    IF k = 0 THEN -1
    ELSE IF 2 * Rem(n, k) > Base THEN 1
    ELSE IF 2 * Rem(n, k) < Base THEN -1
    ELSE IF \E j \in 1..(k - 1) : Rem(n, j) # 0 THEN 1
    ELSE 0

\* f"{x:.1f}" of x = n / 1024^k: x in tenths, rounded to nearest, ties to even
Tenths(n, k) ==
    LET t == 10 * IntPart(n, k) + Carry(n, k)
        c == HalfCmp(n, k)
    IN  IF c = 1 \/ (c = 0 /\ t % 2 = 1) THEN t + 1 ELSE t

Render(n, k, unit) ==
    [whole |-> Tenths(n, k) \div 10,
     decimals |-> << Tenths(n, k) % 10 >>,
     unit |-> unit]

\* the for loop of format_file_size, entered with k divisions done
RECURSIVE UnitLoop(_, _)
UnitLoop(n, k) ==
    IF k < Len(Units)
    THEN IF Below(n, k) THEN Render(n, k, Units[k + 1])
         ELSE UnitLoop(n, k + 1)
    ELSE Render(n, k, LastUnit)

format_file_size(n) ==
    IF IsZero(n) THEN ZeroText ELSE UnitLoop(n, 0)

\* a small natural number in base-1024 digits
RECURSIVE ToDigits(_)
ToDigits(x) ==
    IF x < Base THEN << x >>
    ELSE << x % Base >> \o ToDigits(x \div Base)

(***************************************************************************)
(* FormatSpec: one call of format_file_size on a byte count below 2^53.    *)
(***************************************************************************)
MaxDigits == 6

Digits == {0, 1, 7, 256, 512, 768, 1023}

DigitSeqs(len) == [1..len -> Digits]

\* n < 2^53 = 8 * 1024^5: a double holds n and every n / 1024^k exactly
DoubleExact(n) == Len(n) <= 5 \/ (Len(n) = 6 /\ n[6] < 8)

ByteCounts ==
    { n \in UNION { DigitSeqs(len) : len \in 1..MaxDigits } :
        /\ (Len(n) > 1 => n[Len(n)] # 0)
        /\ DoubleExact(n) }

NotFormatted == [whole |-> -1, decimals |-> << >>, unit |-> "?"]

FormatInit ==
    /\ size_bytes \in ByteCounts
    /\ formatted = NotFormatted

\* format_file_size is not called on its own
FormatIdle == size_bytes = <<0>> /\ formatted = NotFormatted

CallFormat ==
    /\ formatted = NotFormatted
    /\ formatted' = format_file_size(size_bytes)
    /\ UNCHANGED size_bytes

(***************************************************************************)
(* download_models.py: the tasks, the file system, the fetch service       *)
(***************************************************************************)
MODELS == <<
    [repo_id   |-> "irish-quant/Qwen-Qwen2.5-Coder-3B-Instruct-2bit",
     filename  |-> "Qwen2.5-Coder-3B-Instruct-Q2_K.gguf",
     local_dir |-> "models/2bit"],
    [repo_id   |-> "irish-quant/Qwen-Qwen2.5-Coder-3B-Instruct-3bit",
     filename  |-> "Qwen2.5-Coder-3B-Instruct-Q3_K_M.gguf",
     local_dir |-> "models/3bit"],
    [repo_id   |-> "irish-quant/Qwen-Qwen2.5-Coder-3B-Instruct-4bit",
     filename  |-> "Qwen2.5-Coder-3B-Instruct-Q4_K_M.gguf",
     local_dir |-> "models/4bit"] >>

Tasks == 1..Len(MODELS)

\* os.path.join(local_dir, filename)
file_path(m) == << m.local_dir, m.filename >>

TargetPaths == { file_path(MODELS[t]) : t \in Tasks }

\* a path outside every local_dir, which the fetch service may also return
OtherPaths == { << "cache", "blob" >> }

NoPath == << "", "" >>

\* the file sizes of the model, in bytes
Sizes == {0, 100, 200}

\* the file system is a function from the paths that exist to their sizes
Exists(f, path) == path \in DOMAIN f

WriteFile(f, path, size) ==
    IF path = NoPath THEN f
    ELSE [q \in DOMAIN f \cup {path} |-> IF q = path THEN size ELSE f[q]]

\* file_exists(file_path): (exists, size)
file_exists(f, path) ==
    IF Exists(f, path) THEN << TRUE, f[path] >> ELSE << FALSE, 0 >>

\* Path(path).mkdir(parents=True, exist_ok=True), when it does not raise
create_directory(d, path) == d \cup {path}

\* the paths hf_hub_download may write and return for the task m: the file
\* asked for below local_dir (made by create_directory before), or a path
\* of its own
FetchPaths(m) == { file_path(m) } \cup OtherPaths

\* main, lines 138-140: the bytes added to total_size for a successful task
\* (a variant that counts a missing file as 100 bytes)
AddedSize_unchecked(f, m) == IF Exists(f, file_path(m)) THEN f[file_path(m)] ELSE 100

AddedSize(f, m) ==
    IF Exists(f, file_path(m)) THEN f[file_path(m)] ELSE 0

\* what download_model printed about a task: the message, and the size in
\* it (bytes is existing_size or file_size, size its printed text)
NoMessage == [msg |-> "none", bytes |-> 0, size |-> NotFormatted]

Message(kind, size) ==
    [msg |-> kind, bytes |-> size, size |-> format_file_size(ToDigits(size))]

Failure(kind) == [msg |-> kind, bytes |-> 0, size |-> NotFormatted]

NotCalled == [result |-> "not_called", path |-> NoPath]

NoReport == [successes |-> -1, total |-> -1, size |-> NotFormatted,
             hint |-> "none", failed |-> << >>]

\* main, lines 144-159
Summary(successes, size) ==
    [successes |-> successes,
     total     |-> Len(MODELS),
     size      |-> format_file_size(ToDigits(size)),
     hint      |-> IF successes = Len(MODELS) THEN "next_steps" ELSE "retry",
     failed    |-> IF successes = Len(MODELS) THEN << >>
                   ELSE << Len(MODELS) - successes >>]

\* the download variables of a run of main with the file system f and the
\* directories d
MainStart(f, d) ==
    /\ i = 1
    /\ success_count = 0
    /\ total_size = 0
    /\ fs = f
    /\ dirs = d
    /\ console = [t \in Tasks |-> NoMessage]
    /\ outcome = [t \in Tasks |-> "pending"]
    /\ fetchCalls = [t \in Tasks |-> 0]
    /\ fetched = [t \in Tasks |-> NotCalled]
    /\ accounted = [t \in Tasks |-> 0]
    /\ started = << >>
    /\ mkdir_failed = {}
    /\ report = NoReport

\* main is entered with any files at the target paths, each in a directory
\* that exists
MainInit ==
    /\ pc = "loop"
    /\ \E present \in SUBSET TargetPaths, d \in SUBSET { MODELS[t].local_dir : t \in Tasks } :
         \E f \in [present -> Sizes] :
            /\ \A t \in Tasks : Exists(f, file_path(MODELS[t])) => MODELS[t].local_dir \in d
            /\ MainStart(f, d)

\* main is not run
MainIdle == pc = "idle" /\ MainStart(<< >>, {})

\* main, lines 135-140: download_model returned True, with the file system f
MainSuccess(f) ==
    /\ success_count' = success_count + 1
    /\ total_size' = total_size + AddedSize(f, MODELS[i])
    /\ accounted' = [accounted EXCEPT ![i] = AddedSize(f, MODELS[i])]
    /\ outcome' = [outcome EXCEPT ![i] = "success"]
    /\ i' = i + 1
    /\ pc' = "loop"

\* main, lines 141-142: download_model returned False
MainFailure ==
    /\ outcome' = [outcome EXCEPT ![i] = "failed"]
    /\ i' = i + 1
    /\ pc' = "loop"
    /\ UNCHANGED <<success_count, total_size, accounted>>

\* one iteration of main's loop whose file is already there (lines 132-140
\* with download_model lines 84-94)
TaskExists ==
    /\ pc = "loop" /\ i <= Len(MODELS)
    /\ file_exists(fs, file_path(MODELS[i]))[1]
    /\ started' = Append(started, i)
    /\ dirs' = create_directory(dirs, MODELS[i].local_dir)
    /\ console' = [console EXCEPT ![i] =
                     Message("exists", file_exists(fs, file_path(MODELS[i]))[2])]
    /\ MainSuccess(fs)
    /\ UNCHANGED <<fs, fetchCalls, fetched, mkdir_failed, report>>

\* (a variant that downloads although the file is there)
TaskMissing_always ==
    /\ pc = "loop" /\ i <= Len(MODELS)
    /\ started' = Append(started, i)
    /\ dirs' = create_directory(dirs, MODELS[i].local_dir)
    /\ pc' = "fetch"
    /\ UNCHANGED <<i, success_count, total_size, fs, console, outcome, fetchCalls,
                   fetched, accounted, mkdir_failed, report>>

\* the start of an iteration whose file is not there: download_model goes
\* on to call hf_hub_download (lines 84-100)
TaskMissing ==
    /\ pc = "loop" /\ i <= Len(MODELS)
    /\ ~ file_exists(fs, file_path(MODELS[i]))[1]
    /\ started' = Append(started, i)
    /\ dirs' = create_directory(dirs, MODELS[i].local_dir)
    /\ pc' = "fetch"
    /\ UNCHANGED <<i, success_count, total_size, fs, console, outcome, fetchCalls,
                   fetched, accounted, mkdir_failed, report>>

\* (a variant of MkdirRaises that handles the error like a fetch failure)
MkdirRaises_caught ==
    /\ pc = "loop" /\ i <= Len(MODELS)
    /\ MODELS[i].local_dir \notin dirs
    /\ started' = Append(started, i)
    /\ mkdir_failed' = mkdir_failed \cup {i}
    /\ console' = [console EXCEPT ![i] = Failure("error")]
    /\ MainFailure
    /\ UNCHANGED <<fs, dirs, fetchCalls, fetched, report>>

\* create_directory raises (line 85 is outside the try of line 96): the
\* exception leaves download_model and main.  A directory that is there
\* never makes mkdir(exist_ok=True) raise.
MkdirRaises ==
    /\ pc = "loop" /\ i <= Len(MODELS)
    /\ MODELS[i].local_dir \notin dirs
    /\ started' = Append(started, i)
    /\ mkdir_failed' = mkdir_failed \cup {i}
    /\ pc' = "aborted"
    /\ UNCHANGED <<i, success_count, total_size, fs, dirs, console, outcome,
                   fetchCalls, fetched, accounted, report>>

\* hf_hub_download returns path p, having written size s at path w (or
\* nothing, w = NoPath); download_model lines 100-115, main lines 135-142
FetchReturns ==
    /\ pc = "fetch"
    /\ \E p \in FetchPaths(MODELS[i]), w \in FetchPaths(MODELS[i]) \cup {NoPath},
          s \in Sizes :
         LET f == WriteFile(fs, w, s) IN
         /\ fs' = f
         /\ fetchCalls' = [fetchCalls EXCEPT ![i] = @ + 1]
         /\ fetched' = [fetched EXCEPT ![i] = [result |-> "returned", path |-> p]]
         /\ IF Exists(f, p)
            THEN /\ console' = [console EXCEPT ![i] = Message("downloaded", f[p])]
                 /\ MainSuccess(f)
            ELSE /\ console' = [console EXCEPT ![i] = Failure("not_found")]
                 /\ MainFailure
    /\ UNCHANGED <<dirs, started, mkdir_failed, report>>

\* (a variant of FetchRaises without the except clause of line 117)
FetchRaises_propagates ==
    /\ pc = "fetch"
    /\ fetchCalls' = [fetchCalls EXCEPT ![i] = @ + 1]
    /\ fetched' = [fetched EXCEPT ![i] = [result |-> "raised", path |-> NoPath]]
    /\ pc' = "aborted"
    /\ UNCHANGED <<i, success_count, total_size, fs, dirs, console, outcome,
                   accounted, started, mkdir_failed, report>>

\* (a variant of FetchRaises that tries the same task again)
FetchRaises_retry ==
    /\ pc = "fetch"
    /\ fetchCalls[i] < 2
    /\ fetchCalls' = [fetchCalls EXCEPT ![i] = @ + 1]
    /\ fetched' = [fetched EXCEPT ![i] = [result |-> "raised", path |-> NoPath]]
    /\ console' = [console EXCEPT ![i] = Failure("error")]
    /\ UNCHANGED <<pc, i, success_count, total_size, fs, dirs, outcome,
                   accounted, started, mkdir_failed, report>>

\* hf_hub_download raises, having written size s at path w (or nothing);
\* download_model lines 117-119, main lines 141-142
FetchRaises ==
    /\ pc = "fetch"
    /\ \E w \in FetchPaths(MODELS[i]) \cup {NoPath}, s \in Sizes :
         fs' = WriteFile(fs, w, s)
    /\ fetchCalls' = [fetchCalls EXCEPT ![i] = @ + 1]
    /\ fetched' = [fetched EXCEPT ![i] = [result |-> "raised", path |-> NoPath]]
    /\ console' = [console EXCEPT ![i] = Failure("error")]
    /\ MainFailure
    /\ UNCHANGED <<dirs, started, mkdir_failed, report>>

\* the loop is over: main prints the summary (lines 144-159)
PrintSummary ==
    /\ pc = "loop" /\ i > Len(MODELS)
    /\ report' = Summary(success_count, total_size)
    /\ pc' = "done"
    /\ UNCHANGED <<i, success_count, total_size, fs, dirs, console, outcome,
                   fetchCalls, fetched, accounted, started, mkdir_failed>>

(***************************************************************************)
(* list_files.py                                                           *)
(*                                                                         *)
(* A filename is a sequence of characters, so that endswith is computed.   *)
(***************************************************************************)
repos == << "irish-quant/Qwen-Qwen2.5-Coder-3B-Instruct-2bit",
            "irish-quant/Qwen-Qwen2.5-Coder-3B-Instruct-3bit",
            "irish-quant/Qwen-Qwen2.5-Coder-3B-Instruct-4bit" >>

Suffix == << ".", "g", "g", "u", "f" >>

\* str.lower on the letters of the model
Lower(c) == CASE c = "G" -> "g" [] c = "U" -> "u" [] c = "F" -> "f" [] OTHER -> c

\* (a variant that ignores case)
endswith_nocase(name, suffix) ==
    /\ Len(name) >= Len(suffix)
    /\ \A j \in 1..Len(suffix) :
         Lower(name[Len(name) - Len(suffix) + j]) = Lower(suffix[j])

\* file.endswith(suffix)
endswith(name, suffix) ==
    /\ Len(name) >= Len(suffix)
    /\ \A j \in 1..Len(suffix) : name[Len(name) - Len(suffix) + j] = suffix[j]

Line(kind, text) == [kind |-> kind, text |-> text]

\* lines 18-20: the lines printed for the list fl
RECURSIVE PrintMatches(_)
PrintMatches(fl) ==
    IF fl = << >> THEN << >>
    ELSE (IF endswith(Head(fl), Suffix) THEN << Line("match", Head(fl)) >> ELSE << >>)
         \o PrintMatches(Tail(fl))

\* the filenames the listing service answers with
FileNames == { << "a", ".", "g", "g", "u", "f" >>,
               << "b", ".", "t", "x", "t" >>,
               << "c", ".", "G", "G", "U", "F" >>,
               << ".", "g", "g", "u", "f" >> }

MaxFiles == 3

NameSeqs(len) == [1..len -> FileNames]

\* a listing names each file of the repository once
FileLists ==
    { fl \in UNION { NameSeqs(len) : len \in 0..MaxFiles } :
        \A j, k \in 1..Len(fl) : j # k => fl[j] # fl[k] }

ListStart ==
    /\ r = 1
    /\ files = << >>
    /\ queried = << >>
    /\ printed = << >>

ListInit == lpc = "loop" /\ ListStart

\* the listing script is not run
ListIdle == lpc = "idle" /\ ListStart

\* the for statement of line 14 takes the next repo, or ends the script
NextRepo ==
    /\ r' = r + 1
    /\ lpc' = IF r + 1 > Len(repos) THEN "done" ELSE "loop"

\* one iteration in which list_repo_files returns fl (lines 14-20)
ListReturns ==
    /\ lpc = "loop"
    /\ \E fl \in FileLists :
         /\ files' = fl
         /\ printed' = printed \o << Line("header", << repos[r] >>) >> \o PrintMatches(fl)
    /\ queried' = Append(queried, repos[r])
    /\ NextRepo

\* (a variant of ListRaises without the except clause of line 21)
ListRaises_propagates ==
    /\ lpc = "loop"
    /\ printed' = Append(printed, Line("header", << repos[r] >>))
    /\ queried' = Append(queried, repos[r])
    /\ lpc' = "crashed"
    /\ UNCHANGED <<r, files>>

\* one iteration in which list_repo_files raises (lines 14-17, 21-22)
ListRaises ==
    /\ lpc = "loop"
    /\ printed' = printed \o << Line("header", << repos[r] >>), Line("error", << >>) >>
    /\ queried' = Append(queried, repos[r])
    /\ NextRepo
    /\ UNCHANGED files

(***************************************************************************)
(* The specifications                                                      *)
(***************************************************************************)
Init == MainInit /\ FormatIdle /\ ListIdle

Next ==
    \/ TaskExists   /\ UNCHANGED <<fmtVars, lsVars>>
    \/ TaskMissing  /\ UNCHANGED <<fmtVars, lsVars>>
    \/ MkdirRaises  /\ UNCHANGED <<fmtVars, lsVars>>
    \/ FetchReturns /\ UNCHANGED <<fmtVars, lsVars>>
    \/ FetchRaises  /\ UNCHANGED <<fmtVars, lsVars>>
    \/ PrintSummary /\ UNCHANGED <<fmtVars, lsVars>>

Spec == Init /\ [][Next]_vars

\* main runs on: every call returns or raises
FairSpec == Spec /\ WF_vars(Next)

FormatNext == CallFormat /\ UNCHANGED <<dlVars, lsVars>>

FormatSpecInit == MainIdle /\ FormatInit /\ ListIdle

FormatSpec == FormatSpecInit /\ [][FormatNext]_vars

ListNext ==
    \/ ListReturns /\ UNCHANGED <<dlVars, fmtVars>>
    \/ ListRaises  /\ UNCHANGED <<dlVars, fmtVars>>

ListSpecInit == MainIdle /\ FormatIdle /\ ListInit

ListSpec == ListSpecInit /\ [][ListNext]_vars

\* the script runs on: every call of list_repo_files returns or raises
ListFairSpec == ListSpec /\ WF_vars(ListNext)

(***************************************************************************)
(* The claims about main and download_model (Spec, FairSpec)               *)
(***************************************************************************)
\* the size of the file at a path, zero when there is none
SizeAt(f, path) == IF path \in DOMAIN f THEN f[path] ELSE 0

Target(t) == file_path(MODELS[t])

Terminated == pc \in {"done", "aborted"}

Processed == { t \in Tasks : outcome[t] # "pending" }

Succeeded == { t \in Tasks : outcome[t] = "success" }

RECURSIVE SumOver(_, _)
SumOver(g, S) ==
    IF S = {} THEN 0
    ELSE LET t == CHOOSE u \in S : TRUE IN g[t] + SumOver(g, S \ {t})

\* this step starts task i
StartsTask == started' = Append(started, i)

\* C1: a task whose target file exists when the task is processed is never
\* fetched, is reported and recorded as a success, and adds the size of that
\* file to the cumulative total (and one to the success counter).
C1_ExistingFileIsSkipped ==
    /\ [][ (StartsTask /\ Exists(fs, Target(i))) =>
             /\ pc' = "loop"
             /\ fetchCalls' = fetchCalls
             /\ fs' = fs
             /\ console'[i] = Message("exists", fs[Target(i)])
             /\ outcome'[i] = "success"
             /\ success_count' = success_count + 1
             /\ total_size' = total_size + fs[Target(i)] ]_vars
    /\ [](\A t \in Tasks : console[t].msg = "exists" =>
             fetchCalls[t] = 0 /\ fetched[t] = NotCalled /\ outcome[t] = "success")

C1_Witness ==
    /\ console[2].msg = "exists" /\ console[2].bytes = 200
    /\ total_size = 200 /\ success_count = 1
    /\ fetchCalls[2] = 0 /\ fetchCalls[1] = 1

\* C2: when the fetch service returns a path at which a file exists, the
\* success counter goes up by one and the cumulative size by the size of the
\* file at the returned path, whatever path that is.
C2_FetchSuccessAddsDownloadedSize ==
    [][ (pc = "fetch" /\ fetched'[i].result = "returned"
                      /\ Exists(fs', fetched'[i].path)) =>
          /\ success_count' = success_count + 1
          /\ total_size' = total_size + fs'[fetched'[i].path] ]_vars

\* the fetch attempt of task t failed: the service raised, or returned a
\* path at which there is no file
FetchFailed(t) == fetched[t].result = "raised" \/ console[t].msg = "not_found"

C4_ReportShowsSizeOfSuccesses ==
    pc = "done" =>
        /\ report.successes = Cardinality(Succeeded)
        /\ report.total = Len(MODELS)
        /\ report.size = format_file_size(ToDigits(
               SumOver([t \in Tasks |-> console[t].bytes], Succeeded)))
        /\ report.hint = (IF Succeeded = Tasks THEN "next_steps" ELSE "retry")
        /\ report.failed = (IF Succeeded = Tasks THEN << >>
                            ELSE << Len(MODELS) - Cardinality(Succeeded) >>)
        /\ (/\ Cardinality(Succeeded) = 2
            /\ { console[t].bytes : t \in Succeeded } = {100, 200}) =>
               /\ report.successes = 2 /\ report.total = 3
               /\ report.size = [whole |-> 300, decimals |-> <<0>>, unit |-> "B"]
               /\ report.hint = "retry" /\ report.failed = <<1>>

C9_OnlyMkdirFailureAborts ==
    /\ [](mkdir_failed # {} =>
             /\ pc = "aborted"
             /\ mkdir_failed = {i}
             /\ report = NoReport
             /\ \A t \in i..Len(MODELS) : outcome[t] = "pending"
             /\ Len(started) = i)
    /\ [](pc = "aborted" => mkdir_failed # {})
    /\ [][pc = "aborted" => UNCHANGED vars]_vars
    /\ <>(\/ mkdir_failed # {}
          \/ pc = "done" /\ Processed = Tasks /\ report # NoReport)

C9_Witness ==
    /\ pc = "aborted"
    /\ mkdir_failed = {2}
    /\ outcome = <<"failed", "pending", "pending">>
    /\ report = NoReport

\* C10: success_count is between 0 and the number of tasks processed so
\* far, which is at most the number of tasks; success_count and total_size
\* never decrease; total_size changes only in the step that records a task
\* as a success, by the size then at that task's target path (zero when no
\* file is there), and is the sum of these amounts over the successes.
C10_CountersInvariant ==
    /\ [](/\ 0 <= success_count
          /\ success_count <= Cardinality(Processed)
          /\ Cardinality(Processed) <= Len(MODELS)
          /\ success_count = Cardinality(Succeeded)
          /\ total_size = SumOver(accounted, Succeeded)
          /\ \A t \in Tasks \ Succeeded : accounted[t] = 0)
    /\ [][ /\ success_count' >= success_count
           /\ total_size' >= total_size
           /\ total_size' # total_size =>
                 outcome[i] = "pending" /\ outcome'[i] = "success"
           /\ \A t \in Tasks :
                 (outcome[t] = "pending" /\ outcome'[t] = "success") =>
                    /\ total_size' = total_size + SizeAt(fs', Target(t))
                    /\ accounted'[t] = SizeAt(fs', Target(t))
           /\ \A t \in Tasks :
                 outcome[t] # "pending" => accounted'[t] = accounted[t] ]_vars

C10_Witness ==
    /\ success_count = 2
    /\ total_size = 300
    /\ Cardinality(Processed) = 3
    /\ accounted = <<100, 200, 0>>
    /\ console[1].msg = "exists"
    /\ console[2].msg = "downloaded"
    /\ outcome[3] = "failed"

(***************************************************************************)
(* The claim about format_file_size (FormatSpec)                           *)
(***************************************************************************)
\* the value of the digits n, for n below 1024^2
SmallValue(n) == IF Len(n) = 1 THEN n[1] ELSE n[1] + Base * n[2]

\* 1024^k for k < 3
SmallPower(k) == IF k = 0 THEN 1 ELSE IF k = 1 THEN Base ELSE Base * Base

UnitOfMagnitude(len) ==
    CASE len = 1 -> "B" [] len = 2 -> "KB" [] len = 3 -> "MB" [] len = 4 -> "GB"
      [] OTHER -> "TB"

\* C5: 0 gives "0 B"; a positive n is divided by 1024 until it is below
\* 1024, through the units B, KB, MB, GB, TB, and shown with one decimal
\* (the nearest tenth); 1536 gives "1.5 KB", 1048576 gives "1.0 MB"; every
\* n >= 1024^4 is shown in TB, also n >= 1024^5 (then as 1024 TB or more).
C5_FormatFileSize ==
    formatted # NotFormatted =>
        LET n == size_bytes
            k == IF Len(n) <= 5 THEN Len(n) - 1 ELSE 4
            tenths == 10 * formatted.whole + formatted.decimals[1]
        IN
        /\ n = <<0>> => formatted = [whole |-> 0, decimals |-> << >>, unit |-> "B"]
        /\ n # <<0>> =>
              /\ Len(formatted.decimals) = 1
              /\ formatted.decimals[1] \in 0..9
              /\ formatted.unit = UnitOfMagnitude(Len(n))
              \* the whole part is that of n / 1024^k, or one more by rounding
              /\ formatted.whole \in { IntPart(n, k), IntPart(n, k) + 1 }
              /\ Len(n) <= 4 => formatted.whole <= Base
              /\ Len(n) >= 5 => formatted.unit = "TB"
              /\ Len(n) >= 6 => formatted.unit = "TB" /\ formatted.whole >= Base
              \* the nearest tenth, where 32-bit integers can say it
              /\ Len(n) <= 2 =>
                    /\ 2 * (10 * SmallValue(n) - tenths * SmallPower(k)) <= SmallPower(k)
                    /\ 2 * (tenths * SmallPower(k) - 10 * SmallValue(n)) <= SmallPower(k)
        /\ n = <<512, 1>> => formatted = [whole |-> 1, decimals |-> <<5>>, unit |-> "KB"]
        /\ n = <<0, 0, 1>> => formatted = [whole |-> 1, decimals |-> <<0>>, unit |-> "MB"]

C5_Witness ==
    /\ size_bytes = <<0, 0, 0, 0, 0, 1>>
    /\ formatted = [whole |-> 1024, decimals |-> <<0>>, unit |-> "TB"]

(***************************************************************************)
(* The claims about list_files.py (ListSpec, ListFairSpec)                 *)
(***************************************************************************)
\* name is some prefix followed by ".gguf"
IsGguf(name) ==
    \E k \in 0..Len(name) : name = SubSeq(name, 1, k) \o << ".", "g", "g", "u", "f" >>

\* this step is an iteration in which list_repo_files raised
RaisedStep ==
    /\ Len(printed') = Len(printed) + 2
    /\ printed'[Len(printed') ].kind = "error"

\* this step is an iteration in which list_repo_files returned files'
ReturnedStep == queried' # queried /\ ~ RaisedStep

\* C6: of the filenames the listing service returns for a source, exactly
\* those ending in the lowercase suffix ".gguf" are printed as matches, in
\* the order returned; of a.gguf, b.txt, c.GGUF only a.gguf is.
C6_ListingFilter ==
    [][ ReturnedStep =>
          LET matches == SelectSeq(files', IsGguf) IN
          /\ printed' = printed \o << Line("header", << repos[r] >>) >>
                                \o [k \in 1..Len(matches) |-> Line("match", matches[k])]
          /\ files' = << << "a", ".", "g", "g", "u", "f" >>,
                         << "b", ".", "t", "x", "t" >>,
                         << "c", ".", "G", "G", "U", "F" >> >> =>
                SubSeq(printed', Len(printed) + 2, Len(printed')) =
                    << Line("match", << "a", ".", "g", "g", "u", "f" >>) >> ]_vars

C6_Witness ==
    /\ files = << << "a", ".", "g", "g", "u", "f" >>,
                  << "b", ".", "t", "x", "t" >>,
                  << "c", ".", "G", "G", "U", "F" >> >>
    /\ printed = << Line("header", << repos[1] >>),
                    Line("match", << "a", ".", "g", "g", "u", "f" >>) >>

\* C7: an error of the listing service is caught at its source and printed
\* as a diagnostic; the script goes on: the sources are queried in list
\* order, each once, and the script ends having queried every source.
C7_ListingErrorIsRecovered ==
    /\ [][ RaisedStep =>
             /\ printed' = printed \o << Line("header", << repos[r] >>),
                                         Line("error", << >>) >>
             /\ queried' = Append(queried, repos[r])
             /\ r' = r + 1
             /\ lpc' \in {"loop", "done"} ]_vars
    /\ [](/\ lpc \in {"loop", "done"}
          /\ queried = SubSeq(repos, 1, r - 1)
          /\ Cardinality({ k \in 1..Len(printed) : printed[k].kind = "header" }) = r - 1
          /\ lpc = "done" <=> queried = repos)
    /\ <>(lpc = "done" /\ queried = repos)

C7_Witness ==
    /\ lpc = "done"
    /\ queried = repos
    /\ printed[2].kind = "error"
    /\ printed[Len(printed)].kind = "match"

=============================================================================
